---- MODULE Spec2Model ----
(***************************************************************************)
(* Model of the Limitless MCP server: the HTTP client                       *)
(* (src/src/limitless-client.ts: makeApiRequest, getLifelogs,               *)
(* getLifelogById) and the tool layer on top of it (src/src/server.ts:      *)
(* the argument schemas, handleToolApiCall and the five registered tools).  *)
(*                                                                          *)
(* One invocation runs at a time.  An action is one run-to-completion step  *)
(* of the JavaScript event loop: from the event that resumes an async       *)
(* function (the invocation itself, fetch resolving or rejecting, the body  *)
(* read resolving or rejecting, the abort timer firing) up to the next      *)
(* await that leaves the invocation suspended, or to its result.            *)
(***************************************************************************)
EXTENDS Integers, Sequences, FiniteSets, TLC

(***************************************************************************)
(* Program constants                                                        *)
(***************************************************************************)
API_TIMEOUT_MS == 120000
batchSize == 10
MAX_LIFELOG_LIMIT == 100
MAX_SEARCH_FETCH_LIMIT == 100
DEFAULT_SEARCH_FETCH_LIMIT == 20
DEFAULT_RECENT_LIMIT == 10

(***************************************************************************)
(* Bounds of the model                                                      *)
(***************************************************************************)
\* largest in-range limit a caller passes (25 covers three pages of 10, 10, 5)
MaxLimit == 25
\* how many records more than the requested batch size a page may carry
MaxOvershoot == 1
\* the store hands out a next cursor on its first MaxPages - 1 pages only
\* (this is what ends a call without a limit)
MaxPages == 4
\* granularity of the clock, in milliseconds
TickMs == 60000

\* the clock is not advanced beyond one tick past the deadline
MaxClockMs == API_TIMEOUT_MS + TickMs

(***************************************************************************)
(* JavaScript undefined.  The numeric form is an integer outside every      *)
(* domain of the model, so that it can be compared with numbers.            *)
(***************************************************************************)
UndefNum == 0 - 1000
UndefStr == "<undefined>"
NoValue == [kind |-> "none"]

Min(a, b) == IF a <= b THEN a ELSE b

\* Array.prototype.slice(0, end) for an integer end: a negative end counts
\* from the end of the array
Slice0(arr, end) ==
    LET stop == IF end < 0 THEN Len(arr) + end ELSE Min(end, Len(arr))
    IN  IF stop <= 0 THEN <<>> ELSE SubSeq(arr, 1, stop)

(***************************************************************************)
(* Records of the store.  The record at position i of page p of the store   *)
(* is Lifelog(p, i): records are opaque to the client, which only appends,  *)
(* counts and slices them.  The page the store answers with is the one the  *)
(* cursor of the request stands for, so that a cursor sent twice is         *)
(* answered with the same records twice.                                    *)
(***************************************************************************)
RecStride == batchSize + MaxOvershoot + 1
Lifelog(p, i) == p * RecStride + i
PageRecords(p, n) == [i \in 1..n |-> Lifelog(p, i)]
PageOf(cursor) ==
    CASE cursor = "c1" -> 1 [] cursor = "c2" -> 2 [] cursor = "c0" -> 3 [] OTHER -> 0

\* the cursors a page may carry: none, the empty string, or a token
Cursors == {"c1", "c2"}
NextCursors == {UndefStr, ""} \cup Cursors

\* the non-success statuses the store answers with
ErrorStatuses == {401, 404, 500, 504}

(***************************************************************************)
(* LimitlessApiError (limitless-client.ts:63-68) and the messages it is     *)
(* constructed with; a message is kept as the name of its template.         *)
(***************************************************************************)
LimitlessApiError(message, status, responseBody) ==
    [name |-> "LimitlessApiError", message |-> message, status |-> status,
     responseBody |-> responseBody]

\* line 85
KeyMissingError == LimitlessApiError("API key is missing", 401, UndefStr)
\* line 122
ResponseNotOkError(status) ==
    LimitlessApiError("Limitless API Error: <status> <statusText>", status, "<errorBody>")
\* line 133
TimedOutError == LimitlessApiError("request timed out", 504, UndefStr)
\* line 137
NetworkErrorError == LimitlessApiError("Network error calling Limitless API", UndefNum, UndefStr)
\* the TypeError of reading a property of null (line 185, 209), thrown when
\* the body of a success response is the JSON value null; it has no status
NullBodyError ==
    [name |-> "TypeError", message |-> "Cannot read properties of null (reading 'data')",
     status |-> UndefNum, responseBody |-> UndefStr]
\* a not-found error that carries no status
LifelogNotFoundErrorNoStatus ==
    [name |-> "LimitlessApiError", message |-> "Lifelog with ID <id> not found",
     status |-> UndefNum, responseBody |-> UndefStr]

\* line 210
LifelogNotFoundError == LimitlessApiError("Lifelog with ID <id> not found", 404, UndefStr)

(***************************************************************************)
(* LifelogParams (limitless-client.ts:6-17) without  limit and cursor.  A   *)
(* date is a sequence of characters (the schema matches it against a        *)
(* pattern), a flag is written as the string String() makes of it in the    *)
(* query (line 93), and a property that is not set is undefined.            *)
(***************************************************************************)
NoDate == <<"<undefined>">>
NoOptions ==
    [date |-> NoDate, start |-> UndefStr, end |-> UndefStr, direction |-> UndefStr,
     timezone |-> UndefStr, includeMarkdown |-> UndefStr, includeHeadings |-> UndefStr]

\* a ?? b
Coalesce(a, b) == IF a = UndefStr THEN b ELSE a

Returned(v) == [kind |-> "returned", value |-> v]
Thrown(e) == [kind |-> "thrown", error |-> e]

VARIABLES
    envApiKey,      \* process.env.LIMITLESS_API_KEY ("" when not set)
    server,         \* "boot", "running" or "exited"
    tool,           \* the operation being run, "none" when idle
    fn,             \* the client function it calls
    apiKey,         \* the apiKey argument of the client function
    limit,          \* options.limit of getLifelogs
    optCursor,      \* options.cursor of getLifelogs
    lifelogId,      \* lifelogId of getLifelogById
    args,           \* the tool's arguments as its schema parsed them
    options,        \* the options of the client function other than limit and cursor
    originalOptions,\* getLifelogs: originalOptions
    requestedLimit, \* requestedLimit of handleToolApiCall
    searchTerm,     \* args.search_term of the search tool
    finalLimit,     \* args.limit of the search tool
    allLifelogs,    \* getLifelogs: allLifelogs
    currentCursor,  \* getLifelogs: currentCursor
    fetchLimit,     \* getLifelogs: fetchLimit of the request in flight
    pc,             \* "idle", "fetch", "json", "text" or "done"
    response,       \* status of the response the last request got, if any
    elapsed,        \* milliseconds since makeApiRequest armed its timer
    timerArmed,     \* the abort timer is set and not cleared
    requests,       \* history: the network requests issued by this invocation
    pages,          \* history: the pages received by this invocation
    outcome,        \* what the client function returned or threw
    toolResult,     \* the CallToolResult handed to the caller
    frames,         \* interleaved calls: the local variables of each call
    inv             \* interleaved calls: position, requests and pages of each call

argVars == <<tool, fn, apiKey, limit, optCursor, lifelogId, args, options, originalOptions,
            requestedLimit, searchTerm, finalLimit>>
loopVars == <<allLifelogs, currentCursor, fetchLimit>>
callVars == <<pc, response, elapsed, timerArmed>>
histVars == <<requests, pages>>
resultVars == <<outcome, toolResult>>
\* the calls that run interleaved (unused where one invocation runs at a time)
interVars == <<frames, inv>>
procVars == <<envApiKey, server, interVars>>
\* the state of the invocation that runs alone
soloVars == <<argVars, loopVars, callVars, histVars, resultVars>>
vars == <<frames, inv, envApiKey, server, tool, fn, apiKey, limit, optCursor, lifelogId, args, options,
          originalOptions, requestedLimit, searchTerm, finalLimit, allLifelogs, currentCursor, fetchLimit, pc, response,
          elapsed, timerArmed, requests, pages, outcome, toolResult>>

(***************************************************************************)
(* getLifelogs: the decisions of the pagination loop                        *)
(***************************************************************************)
\* a loop that only stops once the limit is overshot
NothingNeededStrict(lim, collected) == lim # UndefNum /\ lim - collected < 0

\* line 164-165: remainingNeeded <= 0 && limit !== undefined
NothingNeeded(lim, collected) == lim # UndefNum /\ lim - collected <= 0

\* a loop that asks for a full batch on every page
FetchLimitFullBatch(lim, collected) == batchSize

\* a loop that takes the limit, not what is left of it, as what is needed
FetchLimitOfWholeLimit(lim, collected) ==
    IF lim = UndefNum THEN batchSize ELSE Min(batchSize, lim)

\* line 164, 167: Math.min(batchSize, remainingNeeded), remainingNeeded being
\* Infinity (and replaced by batchSize) when no limit is given
FetchLimit(lim, collected) ==
    IF lim = UndefNum THEN batchSize ELSE Min(batchSize, lim - collected)

\* a loop that does not take a short page as the end of the data
ShouldBreakIgnoringShortPage(nextCursor, n, fl, lim, collected) ==
    \/ nextCursor \in {UndefStr, ""}
    \/ (lim # UndefNum /\ collected >= lim)

\* a loop that goes on for as long as pages carry a next cursor
ShouldBreakWithoutCursorOnly(nextCursor, n, fl, lim, collected) ==
    nextCursor \in {UndefStr, ""}

\* line 192: collected is allLifelogs.length after the push of line 189
ShouldBreak(nextCursor, n, fl, lim, collected) ==
    \/ nextCursor \in {UndefStr, ""}
    \/ n < fl
    \/ (lim # UndefNum /\ collected >= lim)

\* a loop that puts each page in front of the records collected before
PushInFront(all, lifelogs) == lifelogs \o all

\* line 189: allLifelogs.push(...lifelogs)
Push(all, lifelogs) == all \o lifelogs

\* a loop that starts without the cursor of its options
InitialCursorAbsent(cursor) == UndefStr

\* line 143: let currentCursor = options.cursor
InitialCursor(cursor) == cursor

\* a loop that keeps sending the cursor it already has
AdoptCursorStale(current, nextCursor) == current

\* line 195: currentCursor = nextCursor
AdoptCursor(current, nextCursor) == nextCursor

\* line 148-156: the options as resolved once, before the loop
OriginalOptions(opts, defaultTimezone) ==
    [includeMarkdown |-> Coalesce(opts.includeMarkdown, "true"),
     includeHeadings |-> Coalesce(opts.includeHeadings, "true"),
     date |-> opts.date, start |-> opts.start, end |-> opts.end,
     direction |-> Coalesce(opts.direction, "desc"),
     timezone |-> Coalesce(opts.timezone, defaultTimezone)]

\* a query that carries the filters and the direction on the first page only,
\* as if the cursor stood for them
ParamsCursorAlone(orig, fl, cur) ==
    [limit |-> fl,
     includeMarkdown |-> orig.includeMarkdown, includeHeadings |-> orig.includeHeadings,
     date |-> IF cur # UndefStr THEN NoDate ELSE orig.date,
     start |-> IF cur # UndefStr THEN UndefStr ELSE orig.start,
     end |-> IF cur # UndefStr THEN UndefStr ELSE orig.end,
     direction |-> IF cur # UndefStr THEN UndefStr ELSE orig.direction,
     timezone |-> IF orig.timezone = "" THEN UndefStr ELSE orig.timezone,
     cursor |-> cur]

\* a query that leaves the range out when a date is given
ParamsDateOverRange(orig, fl, cur) ==
    [limit |-> fl,
     includeMarkdown |-> orig.includeMarkdown, includeHeadings |-> orig.includeHeadings,
     date |-> orig.date,
     start |-> IF orig.date # NoDate THEN UndefStr ELSE orig.start,
     end |-> IF orig.date # NoDate THEN UndefStr ELSE orig.end,
     direction |-> orig.direction,
     timezone |-> IF orig.timezone = "" THEN UndefStr ELSE orig.timezone,
     cursor |-> cur]

\* line 169-180: the query of one page request; an empty timezone is deleted
Params(orig, fl, cur) ==
    [limit |-> fl,
     includeMarkdown |-> orig.includeMarkdown, includeHeadings |-> orig.includeHeadings,
     date |-> orig.date, start |-> orig.start, end |-> orig.end,
     direction |-> orig.direction,
     timezone |-> IF orig.timezone = "" THEN UndefStr ELSE orig.timezone,
     cursor |-> cur]

\* line 204-207: the query of getLifelogById
ByIdParams(opts) ==
    [limit |-> UndefNum,
     includeMarkdown |-> Coalesce(opts.includeMarkdown, "true"),
     includeHeadings |-> Coalesce(opts.includeHeadings, "true"),
     date |-> NoDate, start |-> UndefStr, end |-> UndefStr,
     direction |-> UndefStr, timezone |-> UndefStr, cursor |-> UndefStr]

\* a result that is not trimmed to the limit
FinalResultUntrimmed(all, lim) == all

\* line 198
FinalResult(all, lim) == IF lim # UndefNum THEN Slice0(all, lim) ELSE all

(***************************************************************************)
(* Text of the store's records, as sequences of characters, and the string  *)
(* functions the search uses.                                               *)
(***************************************************************************)
NoText == <<"<undefined>">>

Title(id) ==
    CASE id % 6 = 0 -> <<"A", "b", "c">>
      [] id % 6 = 2 -> <<"c">>
      [] id % 6 = 4 -> <<"c", "a">>
      [] OTHER -> NoText

Markdown(id) ==
    CASE id % 6 = 1 -> <<"c", "a", "B">>
      [] id % 6 = 2 -> <<>>
      [] id % 6 = 4 -> <<"c">>
      [] id % 6 = 5 -> <<>>
      [] OTHER -> NoText

LowerChar(ch) ==
    CASE ch = "A" -> "a" [] ch = "B" -> "b" [] ch = "C" -> "c" [] OTHER -> ch

\* String.prototype.toLowerCase
ToLowerCase(str) == [i \in 1..Len(str) |-> LowerChar(str[i])]

\* String.prototype.includes
Includes(str, sub) ==
    \E i \in 0..(Len(str) - Len(sub)) : SubSeq(str, i + 1, i + Len(sub)) = sub

\* server.ts:184: log.title?.toLowerCase().includes(t) ||
\*                (log.markdown && log.markdown.toLowerCase().includes(t))
LogMatches(id, searchTermLower) ==
    \/ (Title(id) # NoText /\ Includes(ToLowerCase(Title(id)), searchTermLower))
    \/ (Markdown(id) # NoText /\ Markdown(id) # <<>>
        /\ Includes(ToLowerCase(Markdown(id)), searchTermLower))

(***************************************************************************)
(* The tool layer: handleToolApiCall and the body of the search tool        *)
(***************************************************************************)
NoResult == [isError |-> FALSE, text |-> [kind |-> "none"]]

\* server.ts:107-129, for the array a list returns
HandleToolApiCallArray(result, reqLimit) ==
    [isError |-> FALSE,
     text |-> IF Len(result) = 0
                THEN [kind |-> "No lifelogs found matching the criteria."]
              ELSE IF reqLimit # UndefNum
                THEN IF Len(result) < reqLimit
                       THEN [kind |-> "Found <n> lifelogs (requested up to <limit>).",
                             n |-> Len(result), limit |-> reqLimit, json |-> result]
                       ELSE [kind |-> "Found <n> lifelogs (limit was <limit>).",
                             n |-> Len(result), limit |-> reqLimit, json |-> result]
              ELSE [kind |-> "Found <n> lifelogs matching the criteria.",
                    n |-> Len(result), json |-> result]]

\* server.ts:123-124, 129, for the single record getLifelogById returns
HandleToolApiCallObject(result) ==
    [isError |-> FALSE, text |-> [kind |-> "<json>", json |-> result]]

\* server.ts:133-138: the error code the handler computes from the status
McpErrorCode(error) ==
    IF error.name # "LimitlessApiError" THEN "InternalError"
    ELSE IF error.status = 401 THEN "InvalidRequest"
    ELSE IF error.status = 404 THEN "InvalidParams"
    ELSE "InternalError"

\* a handler that catches the errors of the client's own class only: any
\* other error escapes, and the caller gets no result from the handler
HandleToolApiCallErrorOwnClassOnly(error) ==
    IF error.name = "LimitlessApiError"
      THEN [isError |-> TRUE,
            text |-> [kind |-> "Error: Limitless API Error (Status <status>): <message>",
                      status |-> error.status, message |-> error.message]]
      ELSE NoResult

\* server.ts:130-141
HandleToolApiCallError(error) ==
    [isError |-> TRUE,
     text |-> IF error.name = "LimitlessApiError"
                THEN [kind |-> "Error: Limitless API Error (Status <status>): <message>",
                      status |-> error.status, message |-> error.message]
                ELSE [kind |-> "Error: <message>", message |-> error.message]]

\* a search that reports the number of matches as the number of records searched
SearchThenCountsMatches(logsToSearch, term, finLimit) ==
    LET searchTermLower == ToLowerCase(term)
        matchingLogs == SelectSeq(logsToSearch, LAMBDA log : LogMatches(log, searchTermLower))
        limitedResults == IF finLimit # UndefNum /\ finLimit # 0
                            THEN Slice0(matchingLogs, finLimit) ELSE matchingLogs
    IN  IF Len(logsToSearch) = 0
          THEN [isError |-> FALSE,
                text |-> [kind |-> "No recent lifelogs found to search within."]]
        ELSE IF Len(limitedResults) = 0
          THEN [isError |-> FALSE,
                text |-> [kind |-> "No matches found for <term> within the <n> most recent",
                          scanned |-> Len(matchingLogs)]]
        ELSE [isError |-> FALSE,
              text |-> [kind |-> "Found <n> match(es) for <term> within the <m> most recent",
                        n |-> Len(limitedResults), scanned |-> Len(matchingLogs),
                        displayingUpTo |-> finLimit, json |-> limitedResults]]

\* server.ts:182-195
SearchThen(logsToSearch, term, finLimit) ==
    LET searchTermLower == ToLowerCase(term)
        matchingLogs == SelectSeq(logsToSearch, LAMBDA log : LogMatches(log, searchTermLower))
        limitedResults == IF finLimit # UndefNum /\ finLimit # 0
                            THEN Slice0(matchingLogs, finLimit) ELSE matchingLogs
    IN  IF Len(logsToSearch) = 0
          THEN [isError |-> FALSE,
                text |-> [kind |-> "No recent lifelogs found to search within."]]
        ELSE IF Len(limitedResults) = 0
          THEN [isError |-> FALSE,
                text |-> [kind |-> "No matches found for <term> within the <n> most recent",
                          scanned |-> Len(logsToSearch)]]
        ELSE [isError |-> FALSE,
              text |-> [kind |-> "Found <n> match(es) for <term> within the <m> most recent",
                        n |-> Len(limitedResults), scanned |-> Len(logsToSearch),
                        displayingUpTo |-> finLimit, json |-> limitedResults]]

\* what the tool hands to its caller when the client function returns `value`
ToolOnReturn(t, value, reqLimit, term, finLimit) ==
    CASE t = "client" -> NoResult
      [] t = "limitless_search_lifelogs" -> SearchThen(value, term, finLimit)
      [] t = "limitless_get_lifelog_by_id" -> HandleToolApiCallObject(value)
      [] OTHER -> HandleToolApiCallArray(value, reqLimit)

\* a search that, when its getLifelogs call fails, scans the records that
\* call had collected
ToolOnThrowScansCollected(t, error) ==
    IF t = "client" THEN NoResult
    ELSE IF t = "limitless_search_lifelogs"
      THEN SearchThen(allLifelogs, searchTerm, finalLimit)
    ELSE HandleToolApiCallError(error)

\* ... and when it throws `error` (server.ts:196 hands the search's error to
\* handleToolApiCall as a rejected promise)
ToolOnThrow(t, error) ==
    IF t = "client" THEN NoResult ELSE HandleToolApiCallError(error)

(***************************************************************************)
(* The argument schemas (server.ts:23-57)                                   *)
(***************************************************************************)
\* z.number().int().positive().max(MAX_LIFELOG_LIMIT).optional()
LimitSchemaOk(l) == l = UndefNum \/ (l > 0 /\ l <= MAX_LIFELOG_LIMIT)

\* z.number().int().positive().max(MAX_SEARCH_FETCH_LIMIT).optional().default(20)
FetchLimitSchemaOk(l) == l = UndefNum \/ (l > 0 /\ l <= MAX_SEARCH_FETCH_LIMIT)

IsDigit(ch) == ch \in {"0", "1", "2", "3", "4", "5", "6", "7", "8", "9"}

\* z.string().regex(/^\d{4}-\d{2}-\d{2}$/)
DateSchemaOk(d) ==
    /\ Len(d) = 10
    /\ \A i \in {1, 2, 3, 4, 6, 7, 9, 10} : IsDigit(d[i])
    /\ d[5] = "-" /\ d[8] = "-"

\* z.enum(["asc", "desc"]).optional()
DirectionSchemaOk(d) == d \in {UndefStr, "asc", "desc"}

\* z.boolean().optional().default(true)
FlagDefault(f) == Coalesce(f, "true")

\* the result of a call the schema rejects: the handler is not run
ValidationError ==
    [isError |-> TRUE, text |-> [kind |-> "Invalid arguments for tool"]]

(***************************************************************************)
(* Inputs                                                                   *)
(***************************************************************************)
ApiKeys == {"", "key"}
\* limits a caller passes: none, out of range on both sides, and 1..MaxLimit
Limits == {UndefNum, MAX_LIFELOG_LIMIT + 1} \cup (-1..MaxLimit)
FetchLimits == {UndefNum, 0, 1, batchSize + 1, MAX_SEARCH_FETCH_LIMIT + 1}
ResultLimits == {UndefNum, 0, 1, 2}
Dates == { <<"2", "0", "2", "5", "-", "0", "3", "-", "0", "1">>,
           <<"2", "0", "2", "5", "-", "3", "-", "1">> }
LifelogIds == {"", "id1"}
SearchTerms == { <<"A", "b">>, <<>> }
NoTerm == <<"<undefined>">>
ValidDate == <<"2", "0", "2", "5", "-", "0", "3", "-", "0", "1">>
\* the arguments of a tool other than lifelog_id, search_term and limit, none
\* of them given
NoArgs ==
    [date |-> NoDate, start |-> UndefStr, end |-> UndefStr, direction |-> UndefStr,
     timezone |-> UndefStr, includeMarkdown |-> UndefStr, includeHeadings |-> UndefStr,
     fetch_limit |-> UndefNum]
\* what getDefaultTimezone answers where Intl knows the local timezone
LocalTimezone == "Europe/Paris"

\* the arguments the list tools share, besides the limit: the ones a caller
\* leaves out, and ones that differ from them
DefaultCommon ==
    [direction |-> UndefStr, timezone |-> UndefStr,
     includeMarkdown |-> UndefStr, includeHeadings |-> UndefStr]
VariedCommon ==
    { [DefaultCommon EXCEPT !.direction = "asc"],
      [DefaultCommon EXCEPT !.direction = "desc"],
      [DefaultCommon EXCEPT !.direction = "up"],
      [DefaultCommon EXCEPT !.timezone = "UTC"],
      [DefaultCommon EXCEPT !.timezone = ""],
      [DefaultCommon EXCEPT !.includeMarkdown = "false"],
      [DefaultCommon EXCEPT !.includeHeadings = "false"],
      [direction |-> "asc", timezone |-> "UTC",
       includeMarkdown |-> "false", includeHeadings |-> "true"] }

\* limit, shared arguments and local timezone of one call of a list tool:
\* every limit with the shared arguments left out, and the other shared
\* arguments with limits of one page and of two pages
ListInputs ==
    [limit : Limits, common : {DefaultCommon}, defaultTimezone : {LocalTimezone}]
    \cup [limit : {1, batchSize + 1}, common : VariedCommon, defaultTimezone : {LocalTimezone}]
    \cup [limit : {1}, common : {DefaultCommon, [DefaultCommon EXCEPT !.timezone = ""]},
          defaultTimezone : {UndefStr}]

\* fetch_limit, limit, term and shared arguments of one call of the search tool
SearchInputs ==
    [term : SearchTerms, fetch_limit : FetchLimits, limit : ResultLimits,
     common : {DefaultCommon}, defaultTimezone : {LocalTimezone}]
    \cup [term : {<<"A", "b">>}, fetch_limit : {1, batchSize + 1}, limit : {UndefNum},
          common : VariedCommon, defaultTimezone : {LocalTimezone}]

\* flags of one call of the get-by-id tool
FlagInputs ==
    { [includeMarkdown |-> UndefStr, includeHeadings |-> UndefStr],
      [includeMarkdown |-> "false", includeHeadings |-> UndefStr],
      [includeMarkdown |-> UndefStr, includeHeadings |-> "false"] }

\* options a program passes to getLifelogs besides limit and cursor
ClientOptions ==
    { [NoOptions EXCEPT !.date = ValidDate],
      [NoOptions EXCEPT !.start = "2025-03-01", !.end = "2025-03-02"],
      [NoOptions EXCEPT !.date = ValidDate, !.start = "2025-03-01"],
      [NoOptions EXCEPT !.date = ValidDate, !.end = "2025-03-02"],
      [NoOptions EXCEPT !.date = ValidDate, !.start = "2025-03-01", !.end = "2025-03-02"],
      [NoOptions EXCEPT !.direction = "asc", !.timezone = "UTC"],
      [NoOptions EXCEPT !.includeMarkdown = "false", !.includeHeadings = "false"] }

\* key, limit, cursor, options and local timezone of one call of getLifelogs
ClientInputs ==
    [key : ApiKeys, limit : {UndefNum} \cup (-1..MaxLimit), cursor : {UndefStr, "c0"},
     options : {NoOptions}, defaultTimezone : {LocalTimezone}]
    \cup [key : {"key"}, limit : {1, batchSize + 1}, cursor : {UndefStr},
          options : ClientOptions, defaultTimezone : {LocalTimezone, UndefStr}]

\* the calls that may run interleaved
Invocations == {1, 2}

\* the local variables of a getLifelogs or getLifelogById call, before the call
NoFrame ==
    [limit |-> UndefNum, originalOptions |-> NoOptions, lifelogId |-> UndefStr,
     allLifelogs |-> <<>>, currentCursor |-> UndefStr, fetchLimit |-> UndefNum]

\* a call that has not been made
NoInvocation ==
    [fn |-> "none", limit |-> UndefNum, options |-> NoOptions, lifelogId |-> UndefStr,
     pc |-> "idle", response |-> UndefNum, requests |-> <<>>, pages |-> <<>>,
     outcome |-> NoValue]

Init ==
    /\ frames = [i \in Invocations |-> NoFrame]
    /\ inv = [i \in Invocations |-> NoInvocation]
    /\ envApiKey \in ApiKeys
    /\ server = "boot"
    /\ tool = "none" /\ fn = "none" /\ apiKey = UndefStr
    /\ limit = UndefNum /\ optCursor = UndefStr /\ lifelogId = UndefStr
    /\ args = NoArgs /\ options = NoOptions /\ originalOptions = NoOptions
    /\ requestedLimit = UndefNum /\ searchTerm = NoTerm /\ finalLimit = UndefNum
    /\ allLifelogs = <<>> /\ currentCursor = UndefStr /\ fetchLimit = UndefNum
    /\ pc = "idle" /\ response = UndefNum /\ elapsed = 0 /\ timerArmed = FALSE
    /\ requests = <<>> /\ pages = <<>>
    /\ outcome = NoValue /\ toolResult = NoResult

(***************************************************************************)
(* server.ts:14-19: the process exits when the key is not set               *)
(***************************************************************************)
Startup ==
    /\ server = "boot" /\ pc = "idle"
    /\ server' = IF envApiKey = "" THEN "exited" ELSE "running"
    /\ UNCHANGED <<envApiKey, interVars, argVars, loopVars, callVars, histVars, resultVars>>

(***************************************************************************)
(* Steps shared by the actions.  They read the primed argument variables:   *)
(* every action sets them (or leaves them unchanged) first.                 *)
(***************************************************************************)
\* the client function returns or throws, and the tool turns that into its result
Settle(all, cur, fl, pgs, out) ==
    /\ allLifelogs' = all /\ currentCursor' = cur /\ fetchLimit' = fl
    /\ pc' = "done" /\ response' = response /\ elapsed' = 0 /\ timerArmed' = FALSE
    /\ requests' = requests /\ pages' = pgs
    /\ outcome' = out
    /\ toolResult' = IF out.kind = "returned"
                       THEN ToolOnReturn(tool', out.value, requestedLimit', searchTerm', finalLimit')
                       ELSE ToolOnThrow(tool', out.error)

\* a client that sends the request without looking at the key
MakeApiRequestUnchecked(endpoint, id, params, all, pgs) ==
    /\ requests' = Append(requests, [endpoint |-> endpoint, lifelogId |-> id] @@ params)
    /\ pages' = pgs
    /\ allLifelogs' = all /\ currentCursor' = params.cursor /\ fetchLimit' = params.limit
    /\ pc' = "fetch" /\ response' = UndefNum /\ elapsed' = 0 /\ timerArmed' = TRUE
    /\ UNCHANGED resultVars

\* a client that sends the request for the page after this one along with it
MakeApiRequestAhead(endpoint, id, params, all, pgs) ==
    IF apiKey' = ""
      THEN Settle(all, params.cursor, params.limit, pgs, Thrown(KeyMissingError))
      ELSE /\ requests' = Append(Append(requests,
                                        [endpoint |-> endpoint, lifelogId |-> id] @@ params),
                                 [endpoint |-> endpoint, lifelogId |-> id] @@ params)
           /\ pages' = pgs
           /\ allLifelogs' = all /\ currentCursor' = params.cursor
           /\ fetchLimit' = params.limit
           /\ pc' = "fetch" /\ response' = UndefNum /\ elapsed' = 0 /\ timerArmed' = TRUE
           /\ UNCHANGED resultVars

\* limitless-client.ts:82-112: makeApiRequest up to its await of fetch; the
\* query carries the parameters that are not undefined (line 90-95)
MakeApiRequest(endpoint, id, params, all, pgs) ==
    IF apiKey' = ""
      THEN Settle(all, params.cursor, params.limit, pgs, Thrown(KeyMissingError))
      ELSE /\ requests' = Append(requests, [endpoint |-> endpoint, lifelogId |-> id] @@ params)
           /\ pages' = pgs
           /\ allLifelogs' = all /\ currentCursor' = params.cursor
           /\ fetchLimit' = params.limit
           /\ pc' = "fetch" /\ response' = UndefNum /\ elapsed' = 0 /\ timerArmed' = TRUE
           /\ UNCHANGED resultVars

\* limitless-client.ts:162-184: one pass from the top of the loop to the request
GetLifelogsLoop(all, cur, pgs) ==
    IF NothingNeeded(limit', Len(all))
      THEN Settle(all, cur, fetchLimit, pgs, Returned(FinalResult(all, limit')))
      ELSE MakeApiRequest("v1/lifelogs", UndefStr,
                          Params(originalOptions', FetchLimit(limit', Len(all)), cur), all, pgs)

\* limitless-client.ts:141-161; defaultTimezone is what getDefaultTimezone
\* (line 71-79) answers in this call
GetLifelogs(key, lim, cursor, opts, defaultTimezone) ==
    /\ fn' = "getLifelogs" /\ apiKey' = key /\ limit' = lim /\ optCursor' = cursor
    /\ lifelogId' = UndefStr
    /\ options' = opts /\ originalOptions' = OriginalOptions(opts, defaultTimezone)
    /\ GetLifelogsLoop(<<>>, InitialCursor(cursor), <<>>)

\* limitless-client.ts:201-208
GetLifelogById(key, id, opts) ==
    /\ fn' = "getLifelogById" /\ apiKey' = key /\ lifelogId' = id
    /\ limit' = UndefNum /\ optCursor' = UndefStr
    /\ options' = opts /\ originalOptions' = NoOptions
    /\ MakeApiRequest("v1/lifelogs/<lifelogId>", id, ByIdParams(opts), <<>>, <<>>)

\* the schema rejects the arguments: the tool's callback is not run
Reject(t) ==
    /\ tool' = t /\ fn' = "none" /\ apiKey' = UndefStr
    /\ limit' = UndefNum /\ optCursor' = UndefStr /\ lifelogId' = UndefStr
    /\ args' = NoArgs /\ options' = NoOptions /\ originalOptions' = NoOptions
    /\ requestedLimit' = UndefNum /\ searchTerm' = NoTerm /\ finalLimit' = UndefNum
    /\ pc' = "done" /\ toolResult' = ValidationError
    /\ UNCHANGED <<loopVars, response, elapsed, timerArmed, histVars, outcome>>

Idle == pc = "idle" /\ tool = "none"

(***************************************************************************)
(* The five tools (server.ts:145-198) and direct calls of the client        *)
(***************************************************************************)
NoSearchArgs == searchTerm' = NoTerm /\ finalLimit' = UndefNum

\* server.ts:145-149
GetLifelogByIdTool ==
    /\ server = "running" /\ Idle
    /\ \E id \in LifelogIds, flags \in FlagInputs :
          LET a == [NoArgs EXCEPT !.includeMarkdown = FlagDefault(flags.includeMarkdown),
                                  !.includeHeadings = FlagDefault(flags.includeHeadings)]
          IN  /\ tool' = "limitless_get_lifelog_by_id" /\ args' = a
              /\ requestedLimit' = UndefNum /\ NoSearchArgs
              /\ GetLifelogById(envApiKey, id,
                     [NoOptions EXCEPT !.includeMarkdown = a.includeMarkdown,
                                       !.includeHeadings = a.includeHeadings])
    /\ UNCHANGED procVars

\* server.ts:23-29: the shared arguments as the schema parses them
CommonArgs(common) ==
    [NoArgs EXCEPT !.direction = common.direction, !.timezone = common.timezone,
                   !.includeMarkdown = FlagDefault(common.includeMarkdown),
                   !.includeHeadings = FlagDefault(common.includeHeadings)]

\* options that pass the direction on as it is given
ApiOptionsDirectionAsGiven(a) ==
    [date |-> a.date, start |-> a.start, end |-> a.end,
     timezone |-> a.timezone,
     includeMarkdown |-> a.includeMarkdown, includeHeadings |-> a.includeHeadings,
     direction |-> a.direction]

\* server.ts:154, 162: apiOptions of the two tools that take a direction
ApiOptions(a) ==
    [date |-> a.date, start |-> a.start, end |-> a.end,
     timezone |-> a.timezone,
     includeMarkdown |-> a.includeMarkdown, includeHeadings |-> a.includeHeadings,
     direction |-> Coalesce(a.direction, "asc")]

\* server.ts:150-157
ListLifelogsByDateTool ==
    /\ server = "running" /\ Idle
    /\ \E d \in Dates, in \in ListInputs :
          IF DateSchemaOk(d) /\ LimitSchemaOk(in.limit) /\ DirectionSchemaOk(in.common.direction)
            THEN LET a == [CommonArgs(in.common) EXCEPT !.date = d]
                 IN  /\ tool' = "limitless_list_lifelogs_by_date" /\ args' = a
                     /\ requestedLimit' = in.limit /\ NoSearchArgs
                     /\ GetLifelogs(envApiKey, in.limit, UndefStr, ApiOptions(a),
                                    in.defaultTimezone)
            ELSE Reject("limitless_list_lifelogs_by_date")
    /\ UNCHANGED procVars

\* server.ts:158-165
ListLifelogsByRangeTool ==
    /\ server = "running" /\ Idle
    /\ \E in \in ListInputs :
          IF LimitSchemaOk(in.limit) /\ DirectionSchemaOk(in.common.direction)
            THEN LET a == [CommonArgs(in.common) EXCEPT !.start = "2025-03-01",
                                                        !.end = "2025-03-02"]
                 IN  /\ tool' = "limitless_list_lifelogs_by_range" /\ args' = a
                     /\ requestedLimit' = in.limit /\ NoSearchArgs
                     /\ GetLifelogs(envApiKey, in.limit, UndefStr, ApiOptions(a),
                                    in.defaultTimezone)
            ELSE Reject("limitless_list_lifelogs_by_range")
    /\ UNCHANGED procVars

\* server.ts:166-173; the schema (line 44-49) replaces a missing limit by 10
\* and has no direction: a direction the caller passes is stripped
ListRecentLifelogsTool ==
    /\ server = "running" /\ Idle
    /\ \E in \in ListInputs :
          IF LimitSchemaOk(in.limit)
            THEN LET l == IF in.limit = UndefNum THEN DEFAULT_RECENT_LIMIT ELSE in.limit
                     a == [CommonArgs(in.common) EXCEPT !.direction = UndefStr]
                 IN  /\ tool' = "limitless_list_recent_lifelogs" /\ args' = a
                     /\ requestedLimit' = l /\ NoSearchArgs
                     /\ GetLifelogs(envApiKey, l, UndefStr,
                                    [NoOptions EXCEPT !.timezone = a.timezone,
                                                      !.includeMarkdown = a.includeMarkdown,
                                                      !.includeHeadings = a.includeHeadings,
                                                      !.direction = "desc"],
                                    in.defaultTimezone)
            ELSE Reject("limitless_list_recent_lifelogs")
    /\ UNCHANGED procVars

\* server.ts:52: .optional().default(DEFAULT_SEARCH_FETCH_LIMIT)
FetchLimitDefault(fl) == IF fl = UndefNum THEN DEFAULT_SEARCH_FETCH_LIMIT ELSE fl

\* server.ts:177: args.fetch_limit ?? DEFAULT_SEARCH_FETCH_LIMIT
SearchFetchLimit(a) ==
    IF a.fetch_limit = UndefNum THEN DEFAULT_SEARCH_FETCH_LIMIT ELSE a.fetch_limit

\* a search that takes its direction as the by-date tool does
SearchOptionsAscending(a) ==
    [NoOptions EXCEPT !.direction = Coalesce(a.direction, "asc"),
                      !.timezone = a.timezone,
                      !.includeMarkdown = "true",
                      !.includeHeadings = a.includeHeadings]

\* a search that passes the caller's includeMarkdown on, as the list tools do
SearchOptionsMarkdownAsGiven(a) ==
    [NoOptions EXCEPT !.direction = "desc",
                      !.timezone = a.timezone,
                      !.includeMarkdown = a.includeMarkdown,
                      !.includeHeadings = a.includeHeadings]

\* server.ts:180: the options the search passes to getLifelogs, besides the limit
SearchOptions(a) ==
    [NoOptions EXCEPT !.direction = "desc",
                      !.timezone = a.timezone,
                      !.includeMarkdown = "true",
                      !.includeHeadings = a.includeHeadings]

\* server.ts:174-181: the search tool up to its await of getLifelogs; its
\* schema (line 50-57) has no direction either
SearchLifelogsTool ==
    /\ server = "running" /\ Idle
    /\ \E in \in SearchInputs :
          IF FetchLimitSchemaOk(in.fetch_limit) /\ LimitSchemaOk(in.limit)
            THEN LET a == [CommonArgs(in.common) EXCEPT
                              !.direction = UndefStr,
                              !.fetch_limit = FetchLimitDefault(in.fetch_limit)]
                 IN  /\ tool' = "limitless_search_lifelogs" /\ args' = a
                     /\ requestedLimit' = UndefNum
                     /\ searchTerm' = in.term /\ finalLimit' = in.limit
                     /\ GetLifelogs(envApiKey, SearchFetchLimit(a), UndefStr,
                                    SearchOptions(a), in.defaultTimezone)
            ELSE Reject("limitless_search_lifelogs")
    /\ UNCHANGED procVars

\* a program that imports the client module and calls getLifelogs itself
ClientGetLifelogs ==
    /\ server = "boot" /\ Idle
    /\ \E in \in ClientInputs :
          /\ tool' = "client" /\ args' = NoArgs
          /\ requestedLimit' = UndefNum /\ NoSearchArgs
          /\ GetLifelogs(in.key, in.limit, in.cursor, in.options, in.defaultTimezone)
    /\ UNCHANGED procVars

\* ... and getLifelogById
ClientGetLifelogById ==
    /\ server = "boot" /\ Idle
    /\ \E key \in ApiKeys, id \in LifelogIds :
          /\ tool' = "client" /\ args' = NoArgs
          /\ requestedLimit' = UndefNum /\ NoSearchArgs
          /\ GetLifelogById(key, id, NoOptions)
    /\ UNCHANGED procVars

(***************************************************************************)
(* makeApiRequest after its request is issued (limitless-client.ts:103-138) *)
(***************************************************************************)
InFlight == pc \in {"fetch", "json", "text"}

\* time passes; an armed timer fires at the deadline, not later
Tick ==
    /\ InFlight
    /\ elapsed + TickMs <= MaxClockMs
    /\ ~(timerArmed /\ elapsed >= API_TIMEOUT_MS)
    /\ elapsed' = elapsed + TickMs
    /\ UNCHANGED <<procVars, argVars, loopVars, pc, response, timerArmed, histVars, resultVars>>

\* line 106, 113: fetch resolves with the response's status line and headers;
\* the timer is cleared, and the body is read next (line 117 or line 126)
FetchResolves ==
    /\ pc = "fetch"
    /\ \E status \in {200} \cup ErrorStatuses :
          /\ response' = status
          /\ pc' = IF status = 200 THEN "json" ELSE "text"
    /\ timerArmed' = FALSE
    /\ UNCHANGED <<procVars, argVars, loopVars, elapsed, histVars, resultVars>>

\* line 103, 128-134: the timer fires, the call is aborted, the pending await
\* rejects with AbortError
TimerFires ==
    /\ InFlight /\ timerArmed /\ elapsed >= API_TIMEOUT_MS
    /\ UNCHANGED <<procVars, argVars>>
    /\ Settle(allLifelogs, currentCursor, fetchLimit, pages, Thrown(TimedOutError))

\* a client that sends the request again when fetch rejects
FetchRejectsAndRetries ==
    /\ pc = "fetch"
    /\ UNCHANGED <<procVars, argVars, loopVars, resultVars>>
    /\ requests' = Append(requests, requests[Len(requests)])
    /\ pages' = pages
    /\ pc' = "fetch" /\ response' = UndefNum /\ elapsed' = 0 /\ timerArmed' = TRUE

\* line 128-137: fetch rejects (DNS, connection reset, ...)
FetchRejects ==
    /\ pc = "fetch"
    /\ UNCHANGED <<procVars, argVars>>
    /\ Settle(allLifelogs, currentCursor, fetchLimit, pages, Thrown(NetworkErrorError))

\* line 117, 126, 128-137: reading the body rejects (connection lost, malformed JSON)
BodyRejects ==
    /\ pc \in {"json", "text"}
    /\ UNCHANGED <<procVars, argVars>>
    /\ Settle(allLifelogs, currentCursor, fetchLimit, pages, Thrown(NetworkErrorError))

\* a loop that answers a failed page with the records collected so far
ErrorBodyReadKeepsPartial ==
    /\ pc = "text"
    /\ UNCHANGED <<procVars, argVars>>
    /\ Settle(allLifelogs, currentCursor, fetchLimit, pages,
              IF fn = "getLifelogs" THEN Returned(FinalResult(allLifelogs, limit))
              ELSE Thrown(ResponseNotOkError(response)))

\* line 115-123, 136: the body of a non-success response is read
ErrorBodyRead ==
    /\ pc = "text"
    /\ UNCHANGED <<procVars, argVars>>
    /\ Settle(allLifelogs, currentCursor, fetchLimit, pages, Thrown(ResponseNotOkError(response)))

\* line 126, then getLifelogs line 185-196 and the next pass of its loop
PageRead ==
    /\ pc = "json" /\ fn = "getLifelogs"
    /\ UNCHANGED <<procVars, argVars>>
    /\ \E n \in 0..(fetchLimit + MaxOvershoot), nextCursor \in NextCursors :
          /\ Len(requests) >= MaxPages => nextCursor \notin Cursors
          /\ LET lifelogs == PageRecords(PageOf(currentCursor), n)
                 all == Push(allLifelogs, lifelogs)
                 pgs == Append(pages, [count |-> n, nextCursor |-> nextCursor,
                                       fetchLimit |-> fetchLimit, collected |-> Len(all),
                                       lifelogs |-> lifelogs])
             IN  IF ShouldBreak(nextCursor, n, fetchLimit, limit, Len(all))
                   THEN Settle(all, currentCursor, fetchLimit, pgs,
                               Returned(FinalResult(all, limit)))
                   ELSE GetLifelogsLoop(all, AdoptCursor(currentCursor, nextCursor), pgs)

\* line 126, then getLifelogById line 209-212
LifelogRead ==
    /\ pc = "json" /\ fn = "getLifelogById"
    /\ UNCHANGED <<procVars, argVars>>
    /\ \E hasLifelog \in BOOLEAN :
          Settle(allLifelogs, currentCursor, fetchLimit, pages,
                 IF hasLifelog THEN Returned(Lifelog(1, 1)) ELSE Thrown(LifelogNotFoundError))

\* line 126 answers null; reading response.data (getLifelogs line 185,
\* getLifelogById line 209, both outside makeApiRequest) throws a TypeError
NullBodyRead ==
    /\ pc = "json"
    /\ UNCHANGED <<procVars, argVars>>
    /\ Settle(allLifelogs, currentCursor, fetchLimit, pages, Thrown(NullBodyError))

\* the caller has its result; the next invocation starts from scratch
Reset ==
    /\ pc = "done"
    /\ tool' = "none" /\ fn' = "none" /\ apiKey' = UndefStr
    /\ limit' = UndefNum /\ optCursor' = UndefStr /\ lifelogId' = UndefStr
    /\ args' = NoArgs /\ options' = NoOptions /\ originalOptions' = NoOptions
    /\ requestedLimit' = UndefNum /\ searchTerm' = NoTerm /\ finalLimit' = UndefNum
    /\ allLifelogs' = <<>> /\ currentCursor' = UndefStr /\ fetchLimit' = UndefNum
    /\ pc' = "idle" /\ response' = UndefNum /\ elapsed' = 0 /\ timerArmed' = FALSE
    /\ requests' = <<>> /\ pages' = <<>>
    /\ outcome' = NoValue /\ toolResult' = NoResult
    /\ UNCHANGED procVars

Next ==
    \/ Startup
    \/ GetLifelogByIdTool
    \/ ListLifelogsByDateTool
    \/ ListLifelogsByRangeTool
    \/ ListRecentLifelogsTool
    \/ SearchLifelogsTool
    \/ ClientGetLifelogs
    \/ ClientGetLifelogById
    \/ Tick
    \/ FetchResolves
    \/ TimerFires
    \/ FetchRejects
    \/ BodyRejects
    \/ ErrorBodyRead
    \/ PageRead
    \/ LifelogRead
    \/ NullBodyRead
    \/ Reset

Spec == Init /\ [][Next]_vars

\* a request that was issued completes: its fetch resolves or rejects, its
\* timer fires, or its body is read or fails to be read
RequestCompletes ==
    \/ FetchResolves
    \/ TimerFires
    \/ FetchRejects
    \/ BodyRejects
    \/ ErrorBodyRead
    \/ PageRead
    \/ LifelogRead
    \/ NullBodyRead

\* the program under the assumption that every request issued completes
SpecCompleting == Init /\ [][Next]_vars /\ WF_vars(RequestCompletes)

(***************************************************************************)
(* Interleaved calls.  The server is running and two calls of the client    *)
(* functions are made by tool callbacks that overlap: each is suspended at  *)
(* its await of fetch or of the body while the other runs.  The local       *)
(* variables of a call (limitless-client.ts:142-156, 167; 201-207) live in  *)
(* the frame of that call; the requests it issued and the pages it          *)
(* received are kept with the call.  Time is not counted here: the timer    *)
(* of a request may fire at any moment while its fetch is pending.          *)
(***************************************************************************)
\* limit and options of the getLifelogs calls that are made
InterleavedInputs ==
    { [limit |-> UndefNum, options |-> [NoOptions EXCEPT !.direction = "asc"]],
      [limit |-> 1, options |-> [NoOptions EXCEPT !.direction = "desc"]],
      [limit |-> batchSize + 1,
       options |-> [NoOptions EXCEPT !.date = ValidDate, !.includeMarkdown = "false"]] }

\* the numbers of records of the page that answers a request for fl records
PageSizes(fl) == {n \in {0, fl - 1, fl, fl + MaxOvershoot} : n >= 0}

\* the cursor the store hands to a call: cursors of different calls differ
CursorFor(i) == IF i = 1 THEN "c1" ELSE "c2"

\* locals kept in one place for all the calls (module-level variables)
FrameShared(i) == 1

\* line 142-156: const and let inside the function: every call has its own
Frame(i) == i

InitInterleaved ==
    /\ frames = [i \in Invocations |-> NoFrame]
    /\ inv = [i \in Invocations |-> NoInvocation]
    /\ envApiKey = "key"
    /\ server = "running"
    /\ tool = "none" /\ fn = "none" /\ apiKey = UndefStr
    /\ limit = UndefNum /\ optCursor = UndefStr /\ lifelogId = UndefStr
    /\ args = NoArgs /\ options = NoOptions /\ originalOptions = NoOptions
    /\ requestedLimit = UndefNum /\ searchTerm = NoTerm /\ finalLimit = UndefNum
    /\ allLifelogs = <<>> /\ currentCursor = UndefStr /\ fetchLimit = UndefNum
    /\ pc = "idle" /\ response = UndefNum /\ elapsed = 0 /\ timerArmed = FALSE
    /\ requests = <<>> /\ pages = <<>>
    /\ outcome = NoValue /\ toolResult = NoResult

\* call i ends with out; f is what its locals are then
EndOf(i, f, v, out) ==
    /\ frames' = [frames EXCEPT ![Frame(i)] = f]
    /\ inv' = [inv EXCEPT ![i] = [v EXCEPT !.pc = "done", !.outcome = out]]

\* limitless-client.ts:82-112: makeApiRequest of call i up to its await of fetch
MakeApiRequestOf(i, f, v, endpoint, params) ==
    IF envApiKey = ""
      THEN EndOf(i, f, v, Thrown(KeyMissingError))
      ELSE /\ frames' = [frames EXCEPT ![Frame(i)] = f]
           /\ inv' = [inv EXCEPT ![i] =
                        [v EXCEPT !.pc = "fetch", !.response = UndefNum,
                                  !.requests = Append(v.requests,
                                      [endpoint |-> endpoint, lifelogId |-> f.lifelogId]
                                        @@ params)]]

\* limitless-client.ts:162-184: one pass of the loop of call i, its locals being f
GetLifelogsLoopOf(i, f, v) ==
    IF NothingNeeded(f.limit, Len(f.allLifelogs))
      THEN EndOf(i, f, v, Returned(FinalResult(f.allLifelogs, f.limit)))
      ELSE LET fl == FetchLimit(f.limit, Len(f.allLifelogs))
           IN  MakeApiRequestOf(i, [f EXCEPT !.fetchLimit = fl], v, "v1/lifelogs",
                                Params(f.originalOptions, fl, f.currentCursor))

\* server.ts:150-198 calling limitless-client.ts:141-161: a tool calls getLifelogs
InvokeGetLifelogs(i) ==
    /\ server = "running" /\ inv[i].pc = "idle"
    /\ \E in \in InterleavedInputs :
          GetLifelogsLoopOf(i,
              [NoFrame EXCEPT !.limit = in.limit,
                              !.originalOptions = OriginalOptions(in.options, LocalTimezone)],
              [NoInvocation EXCEPT !.fn = "getLifelogs", !.limit = in.limit,
                                   !.options = in.options])
    /\ UNCHANGED <<envApiKey, server, soloVars>>

\* server.ts:145-149 calling limitless-client.ts:201-208
InvokeGetLifelogById(i) ==
    /\ server = "running" /\ inv[i].pc = "idle"
    /\ MakeApiRequestOf(i, [NoFrame EXCEPT !.lifelogId = "id1"],
                         [NoInvocation EXCEPT !.fn = "getLifelogById", !.lifelogId = "id1"],
                         "v1/lifelogs/<lifelogId>", ByIdParams(NoOptions))
    /\ UNCHANGED <<envApiKey, server, soloVars>>

\* line 106, 113: the fetch of call i resolves
FetchResolvesOf(i) ==
    /\ inv[i].pc = "fetch"
    /\ \E status \in {200, 500} :
          inv' = [inv EXCEPT ![i].response = status,
                             ![i].pc = IF status = 200 THEN "json" ELSE "text"]
    /\ UNCHANGED <<frames, envApiKey, server, soloVars>>

\* line 128-137: the timer of call i fires while its fetch is pending, or the
\* fetch or the body read rejects
RequestFailsOf(i) ==
    /\ inv[i].pc \in {"fetch", "json", "text"}
    /\ \E e \in {TimedOutError, NetworkErrorError} :
          /\ e = TimedOutError => inv[i].pc = "fetch"
          /\ EndOf(i, frames[Frame(i)], inv[i], Thrown(e))
    /\ UNCHANGED <<envApiKey, server, soloVars>>

\* line 115-123: the body of a non-success response of call i is read
ErrorBodyReadOf(i) ==
    /\ inv[i].pc = "text"
    /\ EndOf(i, frames[Frame(i)], inv[i], Thrown(ResponseNotOkError(inv[i].response)))
    /\ UNCHANGED <<envApiKey, server, soloVars>>

\* line 126, then getLifelogs line 185-196 and the next pass of the loop of
\* call i; the page is the store's answer to the last request the call sent
PageReadOf(i) ==
    /\ inv[i].pc = "json" /\ inv[i].fn = "getLifelogs"
    /\ LET f == frames[Frame(i)]
           v == inv[i]
           sent == v.requests[Len(v.requests)]
       IN  \E n \in PageSizes(sent.limit), nextCursor \in {UndefStr, CursorFor(i)} :
              /\ Len(v.requests) >= MaxPages => nextCursor = UndefStr
              /\ LET lifelogs == PageRecords(PageOf(sent.cursor), n)
                     all == Push(f.allLifelogs, lifelogs)
                     pgs == Append(v.pages, [count |-> n, nextCursor |-> nextCursor,
                                             fetchLimit |-> sent.limit,
                                             collected |-> Len(all),
                                             lifelogs |-> lifelogs])
                 IN  IF ShouldBreak(nextCursor, n, f.fetchLimit, f.limit, Len(all))
                       THEN EndOf(i, [f EXCEPT !.allLifelogs = all],
                                  [v EXCEPT !.pages = pgs],
                                  Returned(FinalResult(all, f.limit)))
                       ELSE GetLifelogsLoopOf(i,
                                [f EXCEPT !.allLifelogs = all,
                                          !.currentCursor = AdoptCursor(f.currentCursor,
                                                                        nextCursor)],
                                [v EXCEPT !.pages = pgs])
    /\ UNCHANGED <<envApiKey, server, soloVars>>

\* line 126, then getLifelogById line 209-212 of call i
LifelogReadOf(i) ==
    /\ inv[i].pc = "json" /\ inv[i].fn = "getLifelogById"
    /\ \E hasLifelog \in BOOLEAN :
          EndOf(i, frames[Frame(i)], inv[i],
                IF hasLifelog THEN Returned(Lifelog(1, 1)) ELSE Thrown(LifelogNotFoundError))
    /\ UNCHANGED <<envApiKey, server, soloVars>>

\* the caller of call i has its result; the frame of the call is gone
ResultTakenOf(i) ==
    /\ inv[i].pc = "done"
    /\ inv' = [inv EXCEPT ![i] = NoInvocation]
    /\ frames' = [frames EXCEPT ![i] = NoFrame]
    /\ UNCHANGED <<envApiKey, server, soloVars>>

NextInterleaved ==
    \/ \E i \in Invocations : InvokeGetLifelogs(i)
    \/ \E i \in Invocations : InvokeGetLifelogById(i)
    \/ \E i \in Invocations : FetchResolvesOf(i)
    \/ \E i \in Invocations : RequestFailsOf(i)
    \/ \E i \in Invocations : ErrorBodyReadOf(i)
    \/ \E i \in Invocations : PageReadOf(i)
    \/ \E i \in Invocations : LifelogReadOf(i)
    \/ \E i \in Invocations : ResultTakenOf(i)

SpecInterleaved == InitInterleaved /\ [][NextInterleaved]_vars

(***************************************************************************)
(* Properties                                                               *)
(***************************************************************************)
CollectReturned == fn = "getLifelogs" /\ pc = "done" /\ outcome.kind = "returned"

CeilDiv(a, b) == (a + b - 1) \div b

\* C1: for every limit L > 0 and whatever the store answers (pages with more
\* records than the batch size asked for included), a getLifelogs call that
\* returns, returns at most L records.
C1_AtMostLimit ==
    (CollectReturned /\ limit > 0) => Len(outcome.value) <= limit

\* a call has returned after a page carried more records than were asked for,
\* so that more than `limit` records were collected
C1_Witness ==
    /\ CollectReturned /\ limit > 0
    /\ Len(allLifelogs) > limit
    /\ \E k \in 1..Len(pages) : pages[k].count > pages[k].fetchLimit

\* C2: request k+1 of a getLifelogs call is issued only if page k carried a
\* next cursor, carried at least as many records as the batch size asked for
\* it, and left the collected count below the limit; so a page shorter than
\* its own batch size is the last one, cursor or not, limit reached or not
\* (limit 25, pages of 10 then 4 records: 2 requests, 14 records returned).
C2_NextPageOnlyIf ==
    fn = "getLifelogs" =>
      /\ \A k \in 1..(Len(requests) - 1) :
            /\ k <= Len(pages)
            /\ pages[k].nextCursor \notin {UndefStr, ""}
            /\ pages[k].count >= pages[k].fetchLimit
            /\ (limit # UndefNum => pages[k].collected < limit)
      /\ \A k \in 1..Len(pages) :
            pages[k].count < pages[k].fetchLimit => (k = Len(requests) /\ pc = "done")
      /\ (/\ limit = 25 /\ Len(pages) = 2
          /\ pages[1].count = 10 /\ pages[2].count = 4)
         => (Len(requests) = 2 /\ CollectReturned /\ Len(outcome.value) = 14)

\* limit 25: a first page of 10 records, then a page of 4 records that
\* carries a next cursor
C2_Witness ==
    /\ fn = "getLifelogs" /\ limit = 25 /\ Len(pages) = 2
    /\ pages[1].count = 10 /\ pages[2].count = 4
    /\ pages[2].nextCursor \in Cursors
    /\ pc = "done"

\* C3: within one getLifelogs call, the cursor sent with request k+1 is the
\* next cursor page k returned, for every k >= 1 with a request k+1.
C3_CursorChain ==
    fn = "getLifelogs" =>
      \A k \in 1..(Len(requests) - 1) :
          k <= Len(pages) /\ requests[k + 1].cursor = pages[k].nextCursor

\* three requests were issued, the first two pages carrying different cursors
C3_Witness ==
    /\ fn = "getLifelogs" /\ Len(requests) >= 3
    /\ pages[1].nextCursor # pages[2].nextCursor
    /\ requests[2].cursor = "c2" /\ requests[3].cursor = "c1"

\* every page received carried exactly the number of records asked for and a
\* next cursor
StoreAnswersExactly ==
    \A k \in 1..Len(pages) :
        pages[k].count = pages[k].fetchLimit /\ pages[k].nextCursor \in Cursors

\* C4: when the store answers every request with exactly the number of
\* records asked for and a next cursor, getLifelogs with limit L > 0 issues
\* ceil(L/10) requests, of batch sizes 10, ..., 10, L - 10 * (ceil(L/10) - 1),
\* and returns L records.
C4_ExactPages ==
    (CollectReturned /\ limit > 0 /\ StoreAnswersExactly) =>
      /\ Len(requests) = CeilDiv(limit, batchSize)
      /\ \A k \in 1..Len(requests) :
            requests[k].limit = IF k < CeilDiv(limit, batchSize)
                                  THEN batchSize
                                  ELSE limit - batchSize * (CeilDiv(limit, batchSize) - 1)
      /\ Len(outcome.value) = limit

\* limit 25: three requests of sizes 10, 10 and 5, each answered exactly
C4_Witness ==
    /\ CollectReturned /\ limit = 25 /\ StoreAnswersExactly
    /\ Len(requests) = 3
    /\ requests[1].limit = 10 /\ requests[2].limit = 10 /\ requests[3].limit = 5
    /\ Len(outcome.value) = 25

\* the errors a request that was issued can end with
RequestErrors ==
    {TimedOutError, NetworkErrorError} \cup {ResponseNotOkError(st) : st \in ErrorStatuses}

\* a getLifelogs call has ended and its last request was not answered by a page
PageFetchFailed == fn = "getLifelogs" /\ pc = "done" /\ Len(requests) > Len(pages)

\* C5: when a page fetch of a getLifelogs call fails, on the first page or
\* after k >= 1 pages, the call ends with that failure alone: none of the
\* records collected is returned, and the tool's result is flagged as an
\* error and carries no records.
C5_FailureAlone ==
    PageFetchFailed =>
      /\ outcome.kind = "thrown"
      /\ outcome.error \in RequestErrors \cup {NullBodyError}
      /\ DOMAIN outcome = {"kind", "error"}
      /\ tool # "client" =>
            /\ toolResult.isError
            /\ "json" \notin DOMAIN toolResult.text
            /\ outcome.error \in RequestErrors =>
                  toolResult.text.status = outcome.error.status

\* a list tool's call failed with a non-success response after two pages
C5_Witness ==
    /\ PageFetchFailed /\ Len(pages) = 2 /\ Len(allLifelogs) > 0
    /\ tool = "limitless_list_lifelogs_by_date"
    /\ outcome = Thrown(ResponseNotOkError(500))

\* C6: after a page fetch of a getLifelogs call fails (non-success response,
\* timeout or network error) the call issues no further request: every
\* request but the last one issued was answered by a page, and once the call
\* has thrown, its list of requests no longer grows.
C6_NoRetryNoResume ==
    /\ [](fn = "getLifelogs" => Len(requests) <= Len(pages) + 1)
    /\ [][outcome.kind = "thrown" => (requests' = requests \/ requests' = <<>>)]_vars
    /\ [][(InFlight /\ outcome'.kind = "thrown") => (requests' = requests /\ pc' = "done")]_vars

\* a call timed out on its second request
C6_Witness ==
    /\ PageFetchFailed /\ Len(pages) = 1 /\ Len(requests) = 2
    /\ outcome = Thrown(TimedOutError)

\* C7: a makeApiRequest call that has not delivered its result (response
\* received and body read) when the deadline elapses is cancelled: no call is
\* still in flight after API_TIMEOUT_MS.
C7_BoundedByDeadline == InFlight => elapsed <= API_TIMEOUT_MS

\* the classification an error carries besides its message text
Classification(error) == <<error.name, error.status, McpErrorCode(error)>>

\* getLifelogs was called with a limit of zero or less
NonPositiveLimit == fn = "getLifelogs" /\ limit # UndefNum /\ limit <= 0

\* C8 as claimed: with a missing or empty credential every operation ends
\* with a configuration error, without any network request, and that error
\* is classified differently from every error a request can end with (from
\* the error of a 401 response in particular).
C8_ConfigErrorDistinct ==
    (pc = "done" /\ fn # "none" /\ apiKey = "") =>
      /\ requests = <<>>
      /\ outcome.kind = "thrown"
      /\ \A e \in RequestErrors : Classification(outcome.error) # Classification(e)

\* C8 as amended: with a missing or empty credential no network request is
\* issued.  The server exits at startup, so that no tool runs without a key.
\* A client function called with an empty key throws, before any request, the
\* key-missing error: it has the class, status (401) and error code of the
\* error of a 401 response and differs from every error a request can end
\* with by its message; getLifelogs with a limit of zero or less returns an
\* empty collection instead.
C8_MissingKeyNoRequest ==
    /\ (fn # "none" /\ apiKey = "") =>
          /\ pc = "done" /\ requests = <<>>
          /\ outcome = IF NonPositiveLimit THEN Returned(<<>>) ELSE Thrown(KeyMissingError)
          /\ outcome.kind = "thrown" =>
                /\ Classification(outcome.error) = Classification(ResponseNotOkError(401))
                /\ \A e \in RequestErrors : outcome.error.message # e.message
    /\ (envApiKey = "" /\ server # "boot") => (server = "exited" /\ tool = "none")
    /\ tool \notin {"none", "client"} => (server = "running" /\ envApiKey # "")

\* getLifelogById was called with an empty key and has thrown
C8_Witness ==
    /\ fn = "getLifelogById" /\ apiKey = "" /\ pc = "done"
    /\ outcome = Thrown(KeyMissingError)

\* getLifelogById has thrown after a 404 response, or after a success response
\* whose body was read and is not null
ByIdNotFound ==
    /\ pc = "done" /\ fn = "getLifelogById" /\ outcome.kind = "thrown"
    /\ response \in {200, 404}
    /\ outcome.error.message \notin {NetworkErrorError.message, NullBodyError.message}

\* C9 as claimed: getLifelogById for an identifier the store does not know (a
\* 404 response, or a success response without a record) ends with a
\* not-found error that is classified differently from the errors built for
\* non-success responses.
C9_NotFoundDistinct ==
    ByIdNotFound =>
      \A st \in ErrorStatuses :
          Classification(outcome.error) # Classification(ResponseNotOkError(st))

\* C9 as amended: getLifelogById for an identifier the store does not know
\* throws a LimitlessApiError of status 404 in both cases: after a 404
\* response it is the error built for every non-success response, after a
\* success response without a record it is the not-found error, which has
\* the classification of the former and another message.  Its status tells
\* it from the errors of responses of other statuses, not from the error of
\* a 404 response.
C9_NotFoundIs404 ==
    ByIdNotFound =>
      /\ outcome.error.name = "LimitlessApiError" /\ outcome.error.status = 404
      /\ response = 404 => outcome.error = ResponseNotOkError(404)
      /\ response = 200 =>
            /\ outcome.error.message = "Lifelog with ID <id> not found"
            /\ outcome.error # ResponseNotOkError(404)
            /\ Classification(outcome.error) = Classification(ResponseNotOkError(404))
      /\ \A st \in ErrorStatuses \ {404} :
            Classification(outcome.error) # Classification(ResponseNotOkError(st))
      /\ tool # "client" => (toolResult.isError /\ toolResult.text.status = 404)

\* the tool has answered a success response that carries no record
C9_Witness ==
    /\ ByIdNotFound /\ response = 200
    /\ tool = "limitless_get_lifelog_by_id"
    /\ outcome = Thrown(LifelogNotFoundError)

\* C10 as claimed: getLifelogs called with a limit of zero or less is
\* rejected with an error and does not return an (empty) collection.
C10_RejectedAsInvalid ==
    (NonPositiveLimit /\ pc = "done") => outcome.kind = "thrown"

\* C10 as amended: getLifelogs called with a limit of zero or less issues no
\* request and returns an empty collection; the limit is rejected by the
\* tools' schema, so that no tool calls getLifelogs with such a limit.
C10_EmptyWithoutRequest ==
    /\ NonPositiveLimit =>
          /\ tool = "client"
          /\ pc = "done" /\ requests = <<>> /\ outcome = Returned(<<>>)
    /\ (tool \notin {"none", "client"} /\ fn = "none") =>
          (pc = "done" /\ requests = <<>> /\ toolResult = ValidationError)

\* a direct call with limit -1 and no key has returned
C10_Witness ==
    /\ NonPositiveLimit /\ limit = -1 /\ apiKey = "" /\ pc = "done"
    /\ outcome = Returned(<<>>)

\* a date together with a start or an end
DateAndRange(r) == r.date # NoDate /\ (r.start # UndefStr \/ r.end # UndefStr)

\* C11 as claimed: getLifelogs called with criteria that set both a date and
\* a range (start and/or end) is rejected as invalid, and no request that
\* carries both a date and a start or an end is sent.
C11_DateAndRangeRejected ==
    /\ (fn = "getLifelogs" /\ DateAndRange(options)) =>
          (requests = <<>> /\ (pc = "done" => outcome.kind = "thrown"))
    /\ \A k \in 1..Len(requests) : ~DateAndRange(requests[k])

\* C11 as amended: getLifelogs does not reject criteria that set both a date
\* and a range: with a key and a positive or no limit it issues its requests
\* as for any other criteria, and every page request carries the date, the
\* start and the end exactly as given, both together included.  The tools
\* never pass both: the by-date tool passes a date only, the by-range tool a
\* start and an end only, the recent and search tools neither, so that no
\* request issued for a tool carries both.
C11_DateAndRangeSent ==
    /\ fn = "getLifelogs" =>
          \A k \in 1..Len(requests) :
              /\ requests[k].date = options.date
              /\ requests[k].start = options.start
              /\ requests[k].end = options.end
    /\ (fn = "getLifelogs" /\ DateAndRange(options) /\ apiKey # "" /\ ~NonPositiveLimit) =>
          /\ Len(requests) >= 1
          /\ outcome.kind = "thrown" => outcome.error \in RequestErrors \cup {NullBodyError}
    /\ tool \notin {"none", "client"} =>
          /\ ~DateAndRange(options)
          /\ \A k \in 1..Len(requests) : ~DateAndRange(requests[k])
          /\ tool = "limitless_list_lifelogs_by_date" /\ fn # "none" =>
                (options.date = args.date /\ options.date # NoDate)
          /\ tool = "limitless_list_lifelogs_by_range" /\ fn # "none" =>
                (options.start # UndefStr /\ options.end # UndefStr)
          /\ tool \in {"limitless_list_recent_lifelogs", "limitless_search_lifelogs"}
                /\ fn # "none" =>
                (options.date = NoDate /\ options.start = UndefStr /\ options.end = UndefStr)

\* a direct call with a date, a start and an end has returned after two
\* requests that carry all three
C11_Witness ==
    /\ CollectReturned /\ DateAndRange(options)
    /\ options.start # UndefStr /\ options.end # UndefStr
    /\ Len(requests) = 2
    /\ \A k \in 1..2 : DateAndRange(requests[k]) /\ requests[k].end = options.end

\* the search tool is running or has ended, its arguments accepted
Searching == tool = "limitless_search_lifelogs" /\ fn = "getLifelogs"

RECURSIVE SumOfLimits(_)
\* the number of records the first k requests asked for, all together
SumOfLimits(k) == IF k = 0 THEN 0 ELSE SumOfLimits(k - 1) + requests[k].limit

\* C12: every page request the search issues carries direction "desc", and
\* the limit of its getLifelogs call is the fetch scope: the fetch_limit
\* given, 20 when none is given, 100 at most, whatever the other arguments
\* are.  The requests of one search ask for no more than fetch-scope records
\* all together, and no more than fetch-scope records are searched.
C12_SearchWindow ==
    Searching =>
      /\ \A k \in 1..Len(requests) :
            requests[k].direction = "desc" /\ requests[k].endpoint = "v1/lifelogs"
      /\ limit = args.fetch_limit
      /\ limit >= 1 /\ limit <= MAX_SEARCH_FETCH_LIMIT
      /\ limit \in (FetchLimits \ {UndefNum}) \cup {DEFAULT_SEARCH_FETCH_LIMIT}
      /\ SumOfLimits(Len(requests)) <= limit
      /\ CollectReturned =>
            /\ Len(outcome.value) <= limit
            /\ "scanned" \in DOMAIN toolResult.text => toolResult.text.scanned <= limit

\* a search without fetch_limit has searched its 20 records after two requests
C12_Witness ==
    /\ Searching /\ CollectReturned
    /\ limit = DEFAULT_SEARCH_FETCH_LIMIT /\ Len(requests) = 2
    /\ Len(allLifelogs) > limit
    /\ toolResult.text.scanned = DEFAULT_SEARCH_FETCH_LIMIT

\* C13: a search whose getLifelogs call returned reports, as the number of
\* records searched, the number of records that call returned: less than the
\* fetch scope when the store had fewer.  The number is reported next to the
\* number of matches displayed and apart from it.  (For an empty window the
\* text says that nothing was found to search within, and carries no number.)
C13_ScannedIsWindow ==
    (Searching /\ CollectReturned) =>
      /\ ~toolResult.isError
      /\ Len(outcome.value) = 0 <=>
            toolResult.text.kind = "No recent lifelogs found to search within."
      /\ Len(outcome.value) > 0 =>
            /\ toolResult.text.scanned = Len(outcome.value)
            /\ toolResult.text.scanned <= limit
            /\ "n" \in DOMAIN toolResult.text =>
                  /\ toolResult.text.n = Len(toolResult.text.json)
                  /\ toolResult.text.n <= toolResult.text.scanned
            /\ "n" \notin DOMAIN toolResult.text =>
                  toolResult.text.kind
                    = "No matches found for <term> within the <n> most recent"

\* a search with fetch scope 20 got a first page of 4 records: 4 records were
\* searched, fewer of them matched
C13_Witness ==
    /\ Searching /\ CollectReturned
    /\ limit = DEFAULT_SEARCH_FETCH_LIMIT
    /\ Len(outcome.value) = 4
    /\ toolResult.text.scanned = 4
    /\ "n" \in DOMAIN toolResult.text /\ toolResult.text.n < 4

\* the title or the body of the record contains the term, case-insensitively;
\* a field that is absent contains nothing
ContainsTerm(id, term) ==
    \/ (Title(id) # NoText /\ Includes(ToLowerCase(Title(id)), ToLowerCase(term)))
    \/ (Markdown(id) # NoText /\ Includes(ToLowerCase(Markdown(id)), ToLowerCase(term)))

\* the records a search result carries
SearchResults == IF "json" \in DOMAIN toolResult.text THEN toolResult.text.json ELSE <<>>

\* C14: the records a search returns are the first resultLimit (all, when no
\* resultLimit is given) of the records of the window, in the window's
\* order, whose title or body contains the term case-insensitively; a record
\* without title and without body is never returned, and the number of
\* records returned is at most min(number of matches, resultLimit).
C14_SearchResult ==
    (Searching /\ CollectReturned) =>
      LET matches == SelectSeq(outcome.value, LAMBDA log : ContainsTerm(log, searchTerm))
          expected == IF finalLimit = UndefNum THEN matches
                      ELSE SubSeq(matches, 1, Min(finalLimit, Len(matches)))
      IN  /\ SearchResults = expected
          /\ \A i \in 1..Len(SearchResults) :
                Title(SearchResults[i]) # NoText \/ Markdown(SearchResults[i]) # NoText
          /\ Len(SearchResults) <= Len(matches)
          /\ finalLimit # UndefNum => Len(SearchResults) <= finalLimit

\* the getLifelogs call of a search has thrown
SearchFailed == Searching /\ outcome.kind = "thrown"

\* C15: when the getLifelogs call that fetches the window of a search fails,
\* the search ends with the failure of that call: an error result that
\* carries the message and the status of the error thrown, the mark of its
\* class.  No record is scanned (the result carries no count and no record),
\* and no request follows the one that failed.
C15_SearchFailsAsCollect ==
    SearchFailed =>
      /\ pc = "done"
      /\ toolResult.isError
      /\ toolResult.text.message = outcome.error.message
      /\ IF outcome.error.name = "LimitlessApiError"
            THEN /\ toolResult.text.status = outcome.error.status
                 /\ toolResult.text.kind
                      = "Error: Limitless API Error (Status <status>): <message>"
            ELSE toolResult.text.kind = "Error: <message>"
      /\ DOMAIN toolResult.text \cap {"n", "scanned", "json", "displayingUpTo"} = {}
      /\ Len(requests) = Len(pages) + 1
      /\ requests[Len(requests)].cursor = currentCursor

\* a search failed with a 500 response on its second request, ten records or
\* more already collected
C15_Witness ==
    /\ SearchFailed /\ Len(pages) = 1 /\ Len(allLifelogs) >= batchSize
    /\ outcome = Thrown(ResponseNotOkError(500))
    /\ toolResult.text.status = 500

\* the errors a client function can throw
ClientErrors == RequestErrors \cup {KeyMissingError, LifelogNotFoundError, NullBodyError}

\* what a result is tagged with, its message apart: the form of its text and
\* the status the text carries, if any
Tag(result) ==
    <<result.isError, result.text.kind,
      IF "status" \in DOMAIN result.text THEN result.text.status ELSE UndefNum>>

\* a tool's callback has ended
ToolEnded == tool \notin {"none", "client"} /\ fn # "none" /\ pc = "done"

\* C16 as claimed: handleToolApiCall lets no exception escape and returns one
\* tagged result for every outcome of the client function, such that two
\* different kinds of failure (the local timeout and a 504 response, for
\* one) are not tagged alike.
C16_KindsTaggedApart ==
    ToolEnded =>
      /\ toolResult # NoResult
      /\ toolResult.isError <=> outcome.kind = "thrown"
      /\ outcome.kind = "thrown" =>
            \A e \in ClientErrors \ {outcome.error} :
                Tag(HandleToolApiCallError(e)) # Tag(toolResult)

\* C16 as amended: handleToolApiCall lets no exception escape and returns
\* exactly one result for every outcome of the client function: a success
\* text for a value, a result flagged as an error for an error of any class.
\* The error result carries the error's message and, for a LimitlessApiError,
\* its status (none for the network error); message apart, two failures are
\* tagged alike exactly when they have the same class and status.  So the
\* local timeout and a 504 response are both tagged with status 504 (a
\* record not found and a 404 response with 404, the missing key and a 401
\* response with 401) and differ in the message only.
C16_TaggedByStatus ==
    ToolEnded =>
      /\ toolResult # NoResult
      /\ toolResult.isError <=> outcome.kind = "thrown"
      /\ outcome.kind = "thrown" =>
            /\ outcome.error \in ClientErrors
            /\ toolResult.text.message = outcome.error.message
            /\ outcome.error.name = "LimitlessApiError" <=> "status" \in DOMAIN toolResult.text
            /\ "status" \in DOMAIN toolResult.text =>
                  toolResult.text.status = outcome.error.status
            /\ \A e \in ClientErrors :
                  Tag(HandleToolApiCallError(e)) = Tag(toolResult)
                    <=> (e.name = outcome.error.name /\ e.status = outcome.error.status)
            /\ outcome.error = TimedOutError =>
                  /\ Tag(toolResult) = Tag(HandleToolApiCallError(ResponseNotOkError(504)))
                  /\ toolResult # HandleToolApiCallError(ResponseNotOkError(504))

\* a list tool's call timed out: its result carries status 504 and the
\* message of the timeout
C16_Witness ==
    /\ ToolEnded /\ tool = "limitless_list_recent_lifelogs"
    /\ outcome = Thrown(TimedOutError)
    /\ toolResult.isError /\ toolResult.text.status = 504
    /\ toolResult.text.message = "request timed out"

\* C17: a call of a tool whose arguments violate the tool's constraint (an
\* empty lifelog_id, an empty search_term, a date that is not YYYY-MM-DD, a
\* limit or fetch_limit that is not a positive integer or exceeds 100) is
\* rejected as a validation error and issues no request.
C17_InvalidRejected ==
    /\ (tool = "limitless_get_lifelog_by_id" /\ lifelogId = "") =>
          (requests = <<>> /\ toolResult = ValidationError)
    /\ (tool = "limitless_search_lifelogs" /\ searchTerm = <<>>) =>
          (requests = <<>> /\ toolResult = ValidationError)
    /\ (tool \notin {"none", "client"} /\ fn = "none") =>
          (pc = "done" /\ requests = <<>> /\ toolResult = ValidationError)
    /\ (tool \notin {"none", "client"} /\ fn = "getLifelogs") =>
          /\ \/ (limit >= 1 /\ limit <= MAX_LIFELOG_LIMIT)
             \/ (limit = UndefNum /\ tool # "limitless_search_lifelogs")
          /\ finalLimit = UndefNum \/ (finalLimit >= 1 /\ finalLimit <= MAX_LIFELOG_LIMIT)
          /\ tool = "limitless_list_lifelogs_by_date" => DateSchemaOk(options.date)

\* C18: every page request of the recent tool carries direction "desc";
\* every page request of the by-date and by-range tools carries the
\* direction the caller gave, and "asc" when the caller gave none; all the
\* page requests of one call carry the same direction.
C18_DirectionResolved ==
    /\ (tool = "limitless_list_recent_lifelogs" /\ fn = "getLifelogs") =>
          \A k \in 1..Len(requests) : requests[k].direction = "desc"
    /\ (tool \in {"limitless_list_lifelogs_by_date", "limitless_list_lifelogs_by_range"}
          /\ fn = "getLifelogs") =>
          \A k \in 1..Len(requests) :
              requests[k].direction = IF args.direction = UndefStr THEN "asc"
                                      ELSE args.direction
    /\ fn = "getLifelogs" =>
          \A k \in 1..Len(requests) :
              requests[k].direction = requests[1].direction
                /\ requests[k].direction \in {"asc", "desc"}

\* the by-range tool, called without a direction, has issued its third
\* request
C18_Witness ==
    /\ tool = "limitless_list_lifelogs_by_range" /\ args.direction = UndefStr
    /\ Len(requests) = 3
    /\ \A k \in 1..3 : requests[k].direction = "asc"

RECURSIVE PagesInOrder(_)
\* the records of the first k pages received, one page after the other
PagesInOrder(k) == IF k = 0 THEN <<>> ELSE PagesInOrder(k - 1) \o pages[k].lifelogs

\* C19: what a getLifelogs call returns is a prefix of the records of the
\* pages it received, put one after the other in the order of the requests:
\* the records of a page keep their order, nothing is reordered, merged,
\* removed as a duplicate or dropped, but for the cut at the limit.
C19_PrefixOfPages ==
    fn = "getLifelogs" =>
      /\ allLifelogs = PagesInOrder(Len(pages))
      /\ CollectReturned =>
            LET all == PagesInOrder(Len(pages))
                n == Len(outcome.value)
            IN  /\ n <= Len(all)
                /\ outcome.value = SubSeq(all, 1, n)
                /\ n = IF limit # UndefNum /\ limit < Len(all) /\ limit >= 0
                        THEN limit ELSE Len(all)

\* a call without a limit has returned the records of three pages, the
\* third page being the second page once more (the store handed out the same
\* cursor twice)
C19_Witness ==
    /\ CollectReturned /\ limit = UndefNum /\ Len(pages) = 3
    /\ pages[1].lifelogs # pages[2].lifelogs
    /\ pages[2].lifelogs = pages[3].lifelogs
    /\ Len(outcome.value) = 3 * batchSize

\* C20: within one getLifelogs call at most one request is in flight at any
\* time: while a request is in flight every request before it has been
\* answered by a page, and request n+1 is issued in the step in which the
\* page of request n, a success response, is read and appended to the
\* records collected, never before.
C20_OneInFlight ==
    /\ []((fn = "getLifelogs" /\ requests # <<>>) =>
            Len(requests) - Len(pages) = IF InFlight THEN 1
                                         ELSE IF outcome.kind = "thrown" THEN 1 ELSE 0)
    /\ [][(fn' = "getLifelogs" /\ Len(requests') > Len(requests)) =>
            /\ Len(requests') = Len(requests) + 1
            /\ pc' = "fetch"
            /\ Len(pages') = Len(requests)
            /\ Len(requests) >= 1 =>
                  /\ pc = "json" /\ response = 200
                  /\ Len(pages) = Len(requests) - 1
                  /\ allLifelogs' = allLifelogs \o pages'[Len(requests)].lifelogs]_vars

\* the third request of a call is in flight, two pages appended
C20_Witness ==
    /\ fn = "getLifelogs" /\ pc = "fetch"
    /\ Len(requests) = 3 /\ Len(pages) = 2
    /\ allLifelogs = pages[1].lifelogs \o pages[2].lifelogs

RECURSIVE RecordsOf(_, _)
\* the records of the first k pages call record v received, in order
RecordsOf(v, k) == IF k = 0 THEN <<>> ELSE RecordsOf(v, k - 1) \o v.pages[k].lifelogs

\* the cursor a getLifelogs call that runs alone sends with its request k
CursorAlone(v, k) == IF k = 1 THEN UndefStr ELSE v.pages[k - 1].nextCursor

\* call i is, at every point, where a call that runs alone with the same
\* limit and options is after the same pages: same requests, same cursor,
\* same records collected, same result
AsAlone(i) ==
    LET v == inv[i]
        f == frames[i]
        np == Len(v.pages)
    IN  /\ \A k \in 1..Len(v.requests) :
              /\ k - 1 <= np
              /\ v.requests[k]
                   = [endpoint |-> "v1/lifelogs", lifelogId |-> UndefStr]
                       @@ Params(OriginalOptions(v.options, LocalTimezone),
                                 FetchLimit(v.limit, Len(RecordsOf(v, k - 1))),
                                 CursorAlone(v, k))
              /\ k > 1 =>
                    ~ShouldBreak(v.pages[k - 1].nextCursor, v.pages[k - 1].count,
                                 v.requests[k - 1].limit, v.limit, Len(RecordsOf(v, k - 1)))
        /\ \A k \in 1..np :
              v.pages[k].lifelogs = PageRecords(PageOf(CursorAlone(v, k)), v.pages[k].count)
        /\ v.pc \in {"fetch", "json", "text"} =>
              /\ Len(v.requests) = np + 1
              /\ f.allLifelogs = RecordsOf(v, np)
              /\ f.currentCursor = CursorAlone(v, np + 1)
              /\ f.limit = v.limit
        /\ (v.pc = "done" /\ v.outcome.kind = "returned") =>
              /\ Len(v.requests) = np /\ np >= 1
              /\ ShouldBreak(v.pages[np].nextCursor, v.pages[np].count,
                             v.requests[np].limit, v.limit, Len(RecordsOf(v, np)))
              /\ v.outcome.value = FinalResult(RecordsOf(v, np), v.limit)
        /\ (v.pc = "done" /\ v.outcome.kind = "thrown") => Len(v.requests) = np + 1

\* C21: two calls that run interleaved, each suspended while it awaits its
\* own request, do not interfere: the cursor, the records collected, the
\* requests and the result of each are those of a call that runs alone and
\* gets the same pages, and no call sends a cursor the store handed to the
\* other.
C21_NoInterference ==
    \A i \in Invocations :
        /\ inv[i].fn = "getLifelogs" => AsAlone(i)
        /\ \A k \in 1..Len(inv[i].requests) :
              \A j \in Invocations \ {i} : inv[i].requests[k].cursor # CursorFor(j)
        /\ inv[i].fn = "getLifelogById" =>
              /\ Len(inv[i].requests) = 1
              /\ inv[i].requests[1].lifelogId = inv[i].lifelogId
              /\ inv[i].requests[1].cursor = UndefStr

\* both calls are suspended, the first at its third request and the second
\* at the body of its second page, each with the cursor it was handed
C21_Witness ==
    /\ inv[1].fn = "getLifelogs" /\ inv[2].fn = "getLifelogs"
    /\ inv[1].pc = "fetch" /\ Len(inv[1].requests) = 3
    /\ inv[2].pc = "json" /\ Len(inv[2].requests) = 2
    /\ inv[1].requests[3].cursor = "c1" /\ inv[2].requests[2].cursor = "c2"
    /\ inv[1].limit # inv[2].limit
    /\ frames[1].allLifelogs # frames[2].allLifelogs

\* C22: on every pass of the loop of getLifelogs the batch size of the
\* request is min(10, L - collected) when a limit L is given and 10 when
\* none is, collected being the number of records appended so far; every
\* request carries a batch size in 1..10.
C22_BatchSize ==
    fn = "getLifelogs" =>
      \A k \in 1..Len(requests) :
          LET collected == Len(PagesInOrder(k - 1))
          IN  /\ k - 1 <= Len(pages)
              /\ requests[k].limit = IF limit = UndefNum THEN batchSize
                                      ELSE Min(batchSize, limit - collected)
              /\ requests[k].limit >= 1 /\ requests[k].limit <= batchSize

\* limit 25: after pages of 11 and 10 records the third request asks for 4
C22_Witness ==
    /\ fn = "getLifelogs" /\ limit = 25 /\ Len(requests) = 3
    /\ pages[1].count = batchSize + 1 /\ pages[2].count = batchSize
    /\ requests[3].limit = 4

\* C23 as claimed: the first request of every getLifelogs call carries no
\* cursor, and a cursor is carried by a request only if an earlier page of
\* the same call returned it as its next cursor.
C23_FirstWithoutCursor ==
    fn = "getLifelogs" =>
      \A k \in 1..Len(requests) :
          \/ requests[k].cursor = UndefStr
          \/ \E j \in 1..(k - 1) : j <= Len(pages) /\ pages[j].nextCursor = requests[k].cursor

\* C23 as amended: the first request of a getLifelogs call carries the
\* cursor of the call's options, as given: none when the caller gave none,
\* which is the case of every tool, since no tool passes a cursor.  Every
\* later request carries the next cursor, neither absent nor empty, that the
\* page before it returned in the same call.
C23_CursorFromCallerOrPage ==
    fn = "getLifelogs" =>
      /\ tool # "client" => optCursor = UndefStr
      /\ \A k \in 1..Len(requests) :
            IF k = 1 THEN requests[k].cursor = optCursor
            ELSE /\ k - 1 <= Len(pages)
                 /\ requests[k].cursor = pages[k - 1].nextCursor
                 /\ requests[k].cursor \notin {UndefStr, ""}

\* a direct call that was given a cursor has sent it with its first request
\* and the next cursor of the first page with its second
C23_Witness ==
    /\ fn = "getLifelogs" /\ tool = "client" /\ optCursor = "c0"
    /\ Len(requests) = 2
    /\ requests[1].cursor = "c0" /\ requests[2].cursor = "c2"
    /\ pages[1].nextCursor = "c2"

\* what a request carries besides its batch size and its cursor
Criteria(r) ==
    [date |-> r.date, start |-> r.start, end |-> r.end, direction |-> r.direction,
     timezone |-> r.timezone, includeMarkdown |-> r.includeMarkdown,
     includeHeadings |-> r.includeHeadings, endpoint |-> r.endpoint]

\* C24: all the page requests of one getLifelogs call carry the criteria of
\* the first (date, start, end, direction, timezone, inclusion flags), which
\* are the options as resolved before the loop; only the batch size and the
\* cursor change.  So the cursor a page returned is sent on with the
\* criteria of the request that the page answered.
C24_SameCriteria ==
    fn = "getLifelogs" =>
      \A k \in 1..Len(requests) :
          /\ Criteria(requests[k]) = Criteria(requests[1])
          /\ requests[k].date = options.date
          /\ requests[k].start = options.start /\ requests[k].end = options.end
          /\ requests[k].direction = originalOptions.direction
          /\ requests[k].direction = Coalesce(options.direction, "desc")
          /\ requests[k].includeMarkdown = Coalesce(options.includeMarkdown, "true")
          /\ requests[k].includeHeadings = Coalesce(options.includeHeadings, "true")
          /\ requests[k].timezone = IF originalOptions.timezone = "" THEN UndefStr
                                     ELSE originalOptions.timezone
          /\ k > 1 =>
                /\ requests[k].cursor = pages[k - 1].nextCursor
                /\ Criteria(requests[k]) = Criteria(requests[k - 1])

\* the by-date tool, called with criteria that all differ from the defaults,
\* has sent its second request, with the cursor of the first page
C24_Witness ==
    /\ tool = "limitless_list_lifelogs_by_date" /\ Len(requests) = 2
    /\ requests[2].cursor \in Cursors
    /\ requests[2].direction = "asc" /\ requests[2].timezone = "UTC"
    /\ requests[2].includeMarkdown = "false" /\ requests[2].date = ValidDate
    /\ requests[2].limit # requests[1].limit

\* the last page received ended the data: it was short of its batch size or
\* carried no next cursor
DataEnded ==
    /\ pages # <<>>
    /\ \/ pages[Len(pages)].count < pages[Len(pages)].fetchLimit
       \/ pages[Len(pages)].nextCursor \in {UndefStr, ""}

\* C25: with a limit L > 0 one getLifelogs call issues at most ceil(L/10)
\* requests, whatever the store answers (short, over-full or empty pages,
\* cursors that repeat), and it ends, provided every request issued
\* completes.  A call without a limit ends only by the store: it returns
\* only after a page that is short or carries no next cursor, and goes on
\* requesting for as long as pages are full and carry one.
C25_BoundedRequests ==
    /\ []((fn = "getLifelogs" /\ limit > 0) => Len(requests) <= CeilDiv(limit, batchSize))
    /\ []((CollectReturned /\ limit = UndefNum) => DataEnded)
    /\ []((fn = "getLifelogs" /\ limit = UndefNum /\ pages # <<>> /\ ~DataEnded) =>
            Len(requests) = Len(pages) + 1)
    /\ []((CollectReturned /\ limit > 0) =>
            (DataEnded \/ Len(PagesInOrder(Len(pages))) >= limit))
    /\ (fn = "getLifelogs" /\ limit > 0 /\ pc # "done") ~> (pc = "done")

\* limit 25: the call has returned after three requests whose pages were
\* over-full, the second cursor being the first once more
C25_Witness ==
    /\ CollectReturned /\ limit = 25 /\ Len(requests) = 3
    /\ \A k \in 1..2 : pages[k].count > pages[k].fetchLimit
    /\ pages[1].nextCursor = pages[2].nextCursor

\* the records of the pages received so far, as a set
Fetched ==
    UNION {{pages[k].lifelogs[j] : j \in 1..Len(pages[k].lifelogs)} : k \in 1..Len(pages)}

====
